---- MODULE Spec2Model ----
(***************************************************************************)
(* A model of utf8-zero: the single-shot decode(), the Incomplete          *)
(* continuation (try_complete), the push decoder LossyDecoder and the      *)
(* pull decoder BufReadDecoder, in its lossy and its strict mode.          *)
(*                                                                         *)
(* Bytes are integers 0..255, byte strings and strs are sequences of       *)
(* bytes.  Rust slices are 0-based; the sequences here are 1-based, so the *)
(* byte at Rust offset i is v[i + 1].                                      *)
(***************************************************************************)
EXTENDS Integers, Sequences, FiniteSets, TLC

VARIABLES
    core_inc,    \* the Incomplete the caller of decode()/try_complete() holds
    core_call,   \* the last call of decode()/try_complete(): input and result
    incomplete,  \* LossyDecoder.incomplete
    fed,         \* all bytes passed to LossyDecoder::feed so far; of a
                 \* BufReadDecoder, the bytes of the source it has consumed
    output,      \* concatenation of every str the callback received, or
                 \* that the strict steps yielded
    emitted,     \* the strs the callback received during the last operation
    substituted, \* how many replacement characters the decoder has emitted
    phase,       \* "alive" | "dropped": whether the LossyDecoder was dropped
    buf_read,    \* the BufReader a BufReadDecoder reads: its data and capacity
    step         \* what the last strict step of the BufReadDecoder yielded

vars == <<core_inc, core_call, incomplete, fed, output, emitted, substituted, phase, buf_read, step>>

coreVars == <<core_inc, core_call>>
pushVars == <<incomplete, fed, output, emitted, substituted, phase>>
readVars == <<buf_read, step>>

-----------------------------------------------------------------------------
(* Bounds of the model.                                                    *)

\* Longest byte string handed to decode().
MaxLen == 4

\* Longest byte string handed to the decode() whose continuation the caller
\* goes on to complete.
MaxFirst == 3

\* Longest byte string handed to one call of try_complete().
MaxMore == 4

\* Most bytes fed to one LossyDecoder, over all its chunks, and most bytes
\* of a source read.
MaxFed == 5

\* Largest capacity of the BufReader read.
MaxCapacity == 3

\* Longest byte string handed to one call of try_complete() by a caller who
\* goes on calling it whatever it returned.
MaxResume == 2

\* The bytes of streamed inputs, one or two of every class the validator
\* tells apart: ASCII 'A'; the continuation bytes 0x80 and 0xA0 (0x80 is
\* rejected as the second byte after 0xE0 and 0xF0); the 2-byte lead 0xC3; the
\* 3-byte lead 0xE0; the 4-byte lead 0xF0.  A continuation byte in lead
\* position is an invalid lead byte.
Bytes == {65, 128, 160, 195, 224, 240}

\* The bytes of decode()'s inputs: Bytes, and 0x90 (the least second byte
\* after 0xF0, rejected after 0xF4), the overlong lead 0xC1, the lead 0xED
\* (surrogates: 0xA0 is rejected after it), the last 4-byte lead 0xF4 and the
\* invalid 0xF5 and 0xFF.
DecodeBytes == Bytes \cup {144, 193, 237, 244, 245, 255}

\* the byte strings over alphabet of length n or less
SeqsUpTo(alphabet, n) == UNION {[1..k -> alphabet] : k \in 0..n}

\* The bytes handed to try_complete() by a caller who goes on calling it
\* whatever it returned: a character, a continuation byte, a 2-byte lead and
\* a 4-byte lead.
ResumeBytes == {65, 160, 195, 240}

DecodeInputs == SeqsUpTo(DecodeBytes, MaxLen)
FirstInputs == SeqsUpTo(Bytes, MaxFirst)
MoreInputs == SeqsUpTo(Bytes, MaxMore)
ResumeInputs == SeqsUpTo(ResumeBytes, MaxResume)
\* Chunks[n]: the chunks of length n or less
Chunks == [n \in 0..MaxFed |-> SeqsUpTo(Bytes, n)]

-----------------------------------------------------------------------------
(* Slices.                                                                 *)

\* &v[from..to] with Rust's 0-based, half-open range.
Slice(v, from, to) == SubSeq(v, from + 1, to)

\* &v[from..]
SliceFrom(v, from) == SubSeq(v, from + 1, Len(v))

Min(a, b) == IF a < b THEN a ELSE b

-----------------------------------------------------------------------------
(* core::str::from_utf8 (the standard library's validation loop).          *)

None == [some |-> FALSE, len |-> 0]
Some(n) == [some |-> TRUE, len |-> n]

\* UTF8_CHAR_WIDTH
utf8_char_width(b) ==
    IF b < 128 THEN 1
    ELSE IF b >= 194 /\ b <= 223 THEN 2
    ELSE IF b >= 224 /\ b <= 239 THEN 3
    ELSE IF b >= 240 /\ b <= 244 THEN 4
    ELSE 0

\* (b as i8) >= -64 is "not a continuation byte"
is_continuation(b) == b >= 128 /\ b <= 191

\* the (first, second) patterns of a 3-byte sequence
second_of_3(first, second) ==
    \/ first = 224 /\ second >= 160 /\ second <= 191
    \/ first >= 225 /\ first <= 236 /\ is_continuation(second)
    \/ first = 237 /\ second >= 128 /\ second <= 159
    \/ first >= 238 /\ first <= 239 /\ is_continuation(second)

\* the (first, second) patterns of a 4-byte sequence
second_of_4(first, second) ==
    \/ first = 240 /\ second >= 144 /\ second <= 191
    \/ first >= 241 /\ first <= 243 /\ is_continuation(second)
    \/ first = 244 /\ second >= 128 /\ second <= 143

Utf8Ok(v) == [ok |-> TRUE, valid_up_to |-> Len(v), error_len |-> None]
Utf8Error(valid_up_to, error_len) ==
    [ok |-> FALSE, valid_up_to |-> valid_up_to, error_len |-> error_len]

\* run_utf8_validation from offset index: old_offset is index, next!() fails
\* with error_len None when the input ends.
RECURSIVE run_utf8_validation(_, _)
run_utf8_validation(v, index) ==
    IF index >= Len(v) THEN Utf8Ok(v)
    ELSE
    LET first == v[index + 1]
        w == utf8_char_width(first)
        len == Len(v)
    IN  IF first < 128 THEN run_utf8_validation(v, index + 1)
        ELSE IF w = 2 THEN
            IF index + 1 >= len THEN Utf8Error(index, None)
            ELSE IF ~is_continuation(v[index + 2]) THEN Utf8Error(index, Some(1))
            ELSE run_utf8_validation(v, index + 2)
        ELSE IF w = 3 THEN
            IF index + 1 >= len THEN Utf8Error(index, None)
            ELSE IF ~second_of_3(first, v[index + 2]) THEN Utf8Error(index, Some(1))
            ELSE IF index + 2 >= len THEN Utf8Error(index, None)
            ELSE IF ~is_continuation(v[index + 3]) THEN Utf8Error(index, Some(2))
            ELSE run_utf8_validation(v, index + 3)
        ELSE IF w = 4 THEN
            IF index + 1 >= len THEN Utf8Error(index, None)
            ELSE IF ~second_of_4(first, v[index + 2]) THEN Utf8Error(index, Some(1))
            ELSE IF index + 2 >= len THEN Utf8Error(index, None)
            ELSE IF ~is_continuation(v[index + 3]) THEN Utf8Error(index, Some(2))
            ELSE IF index + 3 >= len THEN Utf8Error(index, None)
            ELSE IF ~is_continuation(v[index + 4]) THEN Utf8Error(index, Some(3))
            ELSE run_utf8_validation(v, index + 4)
        ELSE Utf8Error(index, Some(1))

from_utf8(v) == run_utf8_validation(v, 0)

-----------------------------------------------------------------------------
(* Incomplete and decode().  A panic of the Rust code (a slice index out   *)
(* of range, unwrap() of a failed checked_sub) is the result Panic.        *)

Panic == [tag |-> "Panic"]

Incomplete_empty == [buffer |-> <<0, 0, 0, 0>>, buffer_len |-> 0]

\* A slip of is_empty: the first byte of the buffer is tested, not buffer_len.
is_empty_by_content(self) == self.buffer[1] = 0

is_empty(self) == self.buffer_len = 0

\* A slip of decode_invalid: the rest starts one byte behind the invalid
\* sequence, so that byte is dropped.
decode_invalid_skips_byte(input, valid, after_valid, invalid_sequence_length) ==
    IF invalid_sequence_length > Len(after_valid) THEN Panic
    ELSE [tag |-> "Invalid",
          valid_prefix |-> valid,
          invalid_sequence |-> Slice(after_valid, 0, invalid_sequence_length),
          remaining_input |-> SliceFrom(after_valid, invalid_sequence_length + 1)]

\* A slip of decode_invalid: the rest is split off the whole input instead of
\* after_valid, so it starts invalid_sequence_length bytes behind the valid
\* prefix's start.
decode_invalid_unshifted(input, valid, after_valid, invalid_sequence_length) ==
    IF invalid_sequence_length > Len(after_valid) THEN Panic
    ELSE [tag |-> "Invalid",
          valid_prefix |-> valid,
          invalid_sequence |-> Slice(after_valid, 0, invalid_sequence_length),
          remaining_input |-> SliceFrom(input, invalid_sequence_length)]

\* decode(), the arm Some(invalid_sequence_length): split_at is out of range
\* past the end of after_valid
decode_invalid(input, valid, after_valid, invalid_sequence_length) ==
    IF invalid_sequence_length > Len(after_valid) THEN Panic
    ELSE [tag |-> "Invalid",
          valid_prefix |-> valid,
          invalid_sequence |-> Slice(after_valid, 0, invalid_sequence_length),
          remaining_input |-> SliceFrom(after_valid, invalid_sequence_length)]

\* A slip of Incomplete::new: buffer_len is the length of the buffer, not of
\* the bytes put in it.
Incomplete_new_buffer_len(bytes) ==
    [buffer |-> [i \in 1..4 |-> IF i <= Len(bytes) THEN bytes[i] ELSE 0],
     buffer_len |-> 4]

\* Incomplete::new
Incomplete_new(bytes) ==
    [buffer |-> [i \in 1..4 |-> IF i <= Len(bytes) THEN bytes[i] ELSE 0],
     buffer_len |-> Len(bytes) % 256]

\* A slip of decode_incomplete: the bytes the input ends in are taken for an
\* invalid sequence with nothing behind it.
decode_incomplete_as_invalid(valid, after_valid) ==
    IF Len(after_valid) > 4 THEN Panic
    ELSE [tag |-> "Invalid",
          valid_prefix |-> valid,
          invalid_sequence |-> after_valid,
          remaining_input |-> <<>>]

\* decode(), the arm None; buffer[..len] of Incomplete::new is out of range
\* when after_valid is longer than the buffer
decode_incomplete(valid, after_valid) ==
    IF Len(after_valid) > 4 THEN Panic
    ELSE [tag |-> "Incomplete",
          valid_prefix |-> valid,
          incomplete_suffix |-> Incomplete_new(after_valid)]

\* A slip of decode_error: an invalid sequence that reaches the end of the
\* input is taken for an incomplete one.
decode_error_at_end(input, error) ==
    IF error.ok THEN [tag |-> "Ok", valid |-> input]
    ELSE IF error.valid_up_to > Len(input) THEN Panic
    ELSE IF error.error_len.some /\ error.valid_up_to + error.error_len.len < Len(input)
    THEN decode_invalid(input, Slice(input, 0, error.valid_up_to),
                        SliceFrom(input, error.valid_up_to), error.error_len.len)
    ELSE decode_incomplete(Slice(input, 0, error.valid_up_to),
                           SliceFrom(input, error.valid_up_to))

\* decode() after its call of from_utf8, which returned error; split_at is out
\* of range past the end of input
decode_error(input, error) ==
    IF error.ok THEN [tag |-> "Ok", valid |-> input]
    ELSE IF error.valid_up_to > Len(input) THEN Panic
    ELSE IF error.error_len.some
    THEN decode_invalid(input, Slice(input, 0, error.valid_up_to),
                        SliceFrom(input, error.valid_up_to), error.error_len.len)
    ELSE decode_incomplete(Slice(input, 0, error.valid_up_to),
                           SliceFrom(input, error.valid_up_to))

decode(input) == decode_error(input, from_utf8(input))

\* the bytes self.buffer[..self.buffer_len]
buffered(self) == SubSeq(self.buffer, 1, self.buffer_len)

\* A slip of the copy: the bytes of input are written from the start of the
\* buffer, over the buffered ones.
copy_from_input_at_start(self, input, copied_from_input) ==
    [i \in 1..4 |-> IF i <= copied_from_input THEN input[i] ELSE self.buffer[i]]

\* self.buffer after copied_from_input bytes of input were copied behind the
\* buffered ones
copy_from_input(self, input, copied_from_input) ==
    [i \in 1..4 |->
        IF i > self.buffer_len /\ i <= self.buffer_len + copied_from_input
        THEN input[i - self.buffer_len]
        ELSE self.buffer[i]]

\* A slip of the arm valid_up_to > 0: all the copied bytes count as consumed,
\* also those behind the code point.
offsets_match_all_copied(initial_buffer_len, copied_from_input, buffer, spliced_len, error) ==
    IF error.ok
    THEN [tag |-> "Offsets",
          self |-> [buffer |-> buffer, buffer_len |-> spliced_len % 256],
          consumed |-> copied_from_input,
          result |-> "Ok"]
    ELSE IF error.valid_up_to > 0
    THEN IF error.valid_up_to < initial_buffer_len THEN Panic
         ELSE [tag |-> "Offsets",
               self |-> [buffer |-> buffer, buffer_len |-> error.valid_up_to % 256],
               consumed |-> copied_from_input,
               result |-> "Ok"]
    ELSE IF error.error_len.some
    THEN IF error.error_len.len < initial_buffer_len THEN Panic
         ELSE [tag |-> "Offsets",
               self |-> [buffer |-> buffer, buffer_len |-> error.error_len.len % 256],
               consumed |-> error.error_len.len - initial_buffer_len,
               result |-> "Err"]
    ELSE [tag |-> "Offsets",
          self |-> [buffer |-> buffer, buffer_len |-> spliced_len % 256],
          consumed |-> copied_from_input,
          result |-> "None"]

\* A slip of the arm None: the bytes copied are not counted into buffer_len.
offsets_match_none_not_stored(initial_buffer_len, copied_from_input, buffer, spliced_len, error) ==
    IF error.ok
    THEN [tag |-> "Offsets",
          self |-> [buffer |-> buffer, buffer_len |-> spliced_len % 256],
          consumed |-> copied_from_input,
          result |-> "Ok"]
    ELSE IF error.valid_up_to > 0
    THEN IF error.valid_up_to < initial_buffer_len THEN Panic
         ELSE [tag |-> "Offsets",
               self |-> [buffer |-> buffer, buffer_len |-> error.valid_up_to % 256],
               consumed |-> error.valid_up_to - initial_buffer_len,
               result |-> "Ok"]
    ELSE IF error.error_len.some
    THEN IF error.error_len.len < initial_buffer_len THEN Panic
         ELSE [tag |-> "Offsets",
               self |-> [buffer |-> buffer, buffer_len |-> error.error_len.len % 256],
               consumed |-> error.error_len.len - initial_buffer_len,
               result |-> "Err"]
    ELSE [tag |-> "Offsets",
          self |-> [buffer |-> buffer, buffer_len |-> initial_buffer_len],
          consumed |-> copied_from_input,
          result |-> "None"]

\* try_complete_offsets after its call of from_utf8 on spliced (the first
\* spliced_len bytes of buffer): the new self, consumed and the
\* Option<Result<(), ()>> as result "None" | "Ok" | "Err".
offsets_match(initial_buffer_len, copied_from_input, buffer, spliced_len, error) ==
    IF error.ok
    THEN [tag |-> "Offsets",
          self |-> [buffer |-> buffer, buffer_len |-> spliced_len % 256],
          consumed |-> copied_from_input,
          result |-> "Ok"]
    ELSE IF error.valid_up_to > 0
    THEN IF error.valid_up_to < initial_buffer_len THEN Panic
         ELSE [tag |-> "Offsets",
               self |-> [buffer |-> buffer, buffer_len |-> error.valid_up_to % 256],
               consumed |-> error.valid_up_to - initial_buffer_len,
               result |-> "Ok"]
    ELSE IF error.error_len.some
    THEN IF error.error_len.len < initial_buffer_len THEN Panic
         ELSE [tag |-> "Offsets",
               self |-> [buffer |-> buffer, buffer_len |-> error.error_len.len % 256],
               consumed |-> error.error_len.len - initial_buffer_len,
               result |-> "Err"]
    ELSE [tag |-> "Offsets",
          self |-> [buffer |-> buffer, buffer_len |-> spliced_len % 256],
          consumed |-> copied_from_input,
          result |-> "None"]

\* A slip of the splice: spliced is the first copied_from_input bytes of the
\* buffer, the bytes buffered before not counted.
offsets_spliced_copied_only(initial_buffer_len, copied_from_input, buffer) ==
    offsets_match(initial_buffer_len, copied_from_input, buffer,
                  copied_from_input,
                  from_utf8(SubSeq(buffer, 1, copied_from_input)))

\* A slip of the validation: the whole buffer is validated, also the bytes
\* behind the spliced ones.
offsets_spliced_whole_buffer(initial_buffer_len, copied_from_input, buffer) ==
    offsets_match(initial_buffer_len, copied_from_input, buffer,
                  initial_buffer_len + copied_from_input,
                  from_utf8(buffer))

\* try_complete_offsets once the buffer is spliced
offsets_spliced(initial_buffer_len, copied_from_input, buffer) ==
    offsets_match(initial_buffer_len, copied_from_input, buffer,
                  initial_buffer_len + copied_from_input,
                  from_utf8(SubSeq(buffer, 1, initial_buffer_len + copied_from_input)))

\* A slip of the copy's length: one byte of input is taken per call.
copied_single_byte(self, input) == Min(1, Len(input))

\* how many bytes of input fit behind the buffered ones
copied(self, input) == Min(4 - self.buffer_len, Len(input))

\* self.buffer[initial_buffer_len..] is out of range when buffer_len > 4
try_complete_offsets(self, input) ==
    IF self.buffer_len > 4 THEN Panic
    ELSE offsets_spliced(self.buffer_len, copied(self, input),
                         copy_from_input(self, input, copied(self, input)))

\* A slip of take_buffer: all of the buffer is returned, not buffer[..len].
take_buffer_whole_buffer(self) ==
    [bytes |-> self.buffer,
     self |-> [self EXCEPT !.buffer_len = 0]]

\* A slip of take_buffer: buffer_len is not reset.
take_buffer_not_reset(self) ==
    [bytes |-> SubSeq(self.buffer, 1, self.buffer_len),
     self |-> self]

\* take_buffer: the bytes returned and the new self
take_buffer(self) ==
    [bytes |-> SubSeq(self.buffer, 1, self.buffer_len),
     self |-> [self EXCEPT !.buffer_len = 0]]

\* A slip of try_complete: take_buffer is called before the ? on opt_result,
\* so the continuation is reset also when the result is None.
complete_offsets_take_first(input, off) ==
    IF off.tag = "Panic" THEN Panic
    ELSE IF off.self.buffer_len > 4 THEN Panic
    ELSE IF off.result = "None"
    THEN [tag |-> "None", self |-> take_buffer(off.self).self]
    ELSE IF off.consumed > Len(input) THEN Panic
    ELSE [tag |-> "Some",
          self |-> take_buffer(off.self).self,
          ok |-> off.result = "Ok",
          bytes |-> take_buffer(off.self).bytes,
          remaining_input |-> SliceFrom(input, off.consumed)]

\* A slip of try_complete: remaining_input is the whole input, not
\* input[consumed..].
complete_offsets_whole_input(input, off) ==
    IF off.tag = "Panic" THEN Panic
    ELSE IF off.result = "None" THEN [tag |-> "None", self |-> off.self]
    ELSE IF off.consumed > Len(input) THEN Panic
    ELSE IF off.self.buffer_len > 4 THEN Panic
    ELSE [tag |-> "Some",
          self |-> take_buffer(off.self).self,
          ok |-> off.result = "Ok",
          bytes |-> take_buffer(off.self).bytes,
          remaining_input |-> input]

\* try_complete after its call of try_complete_offsets, which returned off:
\* the new self and None, or Some((Ok(str) | Err(bytes), remaining_input))
complete_offsets(input, off) ==
    IF off.tag = "Panic" THEN Panic
    ELSE IF off.result = "None" THEN [tag |-> "None", self |-> off.self]
    ELSE IF off.consumed > Len(input) THEN Panic
    ELSE IF off.self.buffer_len > 4 THEN Panic
    ELSE [tag |-> "Some",
          self |-> take_buffer(off.self).self,
          ok |-> off.result = "Ok",
          bytes |-> take_buffer(off.self).bytes,
          remaining_input |-> SliceFrom(input, off.consumed)]

try_complete(self, input) == complete_offsets(input, try_complete_offsets(self, input))

-----------------------------------------------------------------------------
(* The caller of decode() and try_complete().                              *)

NoCall == [op |-> "none"]

CoreInit ==
    /\ core_inc = Incomplete_empty
    /\ core_call = NoCall

\* what the caller holds after decode() returned result
Decoded(input, result) ==
    /\ core_call' = [op |-> "decode", input |-> input, result |-> result]
    /\ core_inc' = IF result.tag = "Incomplete"
                   THEN result.incomplete_suffix
                   ELSE Incomplete_empty

\* result = decode(input) for an input among inputs, the first call of a caller
CallDecode(inputs) ==
    /\ core_call = NoCall
    /\ \E input \in inputs : Decoded(input, decode(input))

\* what the caller holds after core_inc.try_complete(input) returned result;
\* after_none: core_inc was left by a try_complete() that returned None
Completed(input, result) ==
    /\ core_call' = [op |-> "try_complete", before |-> core_inc,
                     after_none |-> core_call.op = "try_complete"
                                       /\ core_call.result.tag = "None",
                     input |-> input, result |-> result]
    /\ core_inc' = IF result.tag = "Panic" THEN core_inc ELSE result.self

\* result = core_inc.try_complete(input), on a continuation decode() returned
\* or an earlier try_complete() left by returning None
CallTryComplete ==
    /\ ~is_empty(core_inc)
    /\ \E input \in MoreInputs : Completed(input, try_complete(core_inc, input))

\* result = core_inc.try_complete(input) on the continuation as the calls
\* before left it: the one decode() returned, one a None left, or one a Some
\* has reset
CallTryCompleteAgain ==
    /\ core_call # NoCall
    /\ core_call.op = "decode" => core_call.result.tag = "Incomplete"
    /\ \E input \in ResumeInputs : Completed(input, try_complete(core_inc, input))

-----------------------------------------------------------------------------
(* String::from_utf8_lossy (the standard library's Utf8Chunks iterator).   *)

REPLACEMENT_CHARACTER == <<239, 191, 189>>

\* safe_get: 0 past the end
safe_get(xs, i) == IF i < Len(xs) THEN xs[i + 1] ELSE 0

\* The scan of Utf8Chunks::next from offset i: where it stops (i) and the end
\* of the valid part (valid_up_to).
RECURSIVE utf8_chunk_scan(_, _, _)
utf8_chunk_scan(source, i, valid_up_to) ==
    IF i >= Len(source) THEN [i |-> i, valid_up_to |-> valid_up_to]
    ELSE
    LET byte == source[i + 1]
        w == utf8_char_width(byte)
        stop(at) == [i |-> at, valid_up_to |-> valid_up_to]
    IN  IF byte < 128 THEN utf8_chunk_scan(source, i + 1, i + 1)
        ELSE IF w = 2 THEN
            IF ~is_continuation(safe_get(source, i + 1)) THEN stop(i + 1)
            ELSE utf8_chunk_scan(source, i + 2, i + 2)
        ELSE IF w = 3 THEN
            IF ~second_of_3(byte, safe_get(source, i + 1)) THEN stop(i + 1)
            ELSE IF ~is_continuation(safe_get(source, i + 2)) THEN stop(i + 2)
            ELSE utf8_chunk_scan(source, i + 3, i + 3)
        ELSE IF w = 4 THEN
            IF ~second_of_4(byte, safe_get(source, i + 1)) THEN stop(i + 1)
            ELSE IF ~is_continuation(safe_get(source, i + 2)) THEN stop(i + 2)
            ELSE IF ~is_continuation(safe_get(source, i + 3)) THEN stop(i + 3)
            ELSE utf8_chunk_scan(source, i + 4, i + 4)
        ELSE stop(i + 1)

\* one Utf8Chunk (scan: where its valid and invalid parts end) and the chunks
\* after it: the valid part, and U+FFFD for a non-empty invalid part
RECURSIVE lossy_chunks(_, _)
lossy_chunks(v, scan) ==
    Slice(v, 0, scan.valid_up_to)
    \o (IF scan.i > scan.valid_up_to THEN REPLACEMENT_CHARACTER ELSE <<>>)
    \o (IF scan.i >= Len(v) THEN <<>>
        ELSE lossy_chunks(SliceFrom(v, scan.i),
                          utf8_chunk_scan(SliceFrom(v, scan.i), 0, 0)))

from_utf8_lossy(v) == IF v = <<>> THEN <<>> ELSE lossy_chunks(v, utf8_chunk_scan(v, 0, 0))

-----------------------------------------------------------------------------
(* LossyDecoder: feed and the finalize on drop.                            *)

\* the callback is not invoked for an empty valid prefix
emit_non_empty(strs, text) == IF text = <<>> THEN strs ELSE Append(strs, text)

\* One round of the loop of feed over decode(), r being what decode(input)
\* returned: the strs emitted, how many of them are substituted replacement
\* characters, and the continuation left.
RECURSIVE feed_decoded(_, _, _, _)
feed_decoded(self, r, strs, count) ==
    IF r.tag = "Panic" THEN Panic
    ELSE IF r.tag = "Ok"
    THEN [tag |-> "Fed", incomplete |-> self,
          emitted |-> Append(strs, r.valid), substituted |-> count]
    ELSE IF r.tag = "Invalid"
    THEN feed_decoded(self, decode(r.remaining_input),
                      Append(emit_non_empty(strs, r.valid_prefix), REPLACEMENT_CHARACTER),
                      count + 1)
    ELSE [tag |-> "Fed", incomplete |-> r.incomplete_suffix,
          emitted |-> emit_non_empty(strs, r.valid_prefix),
          substituted |-> count]

\* feed of a Pending decoder after try_complete(chunk) returned c
feed_completed(c) ==
    IF c.tag = "Panic" THEN Panic
    ELSE IF c.tag = "None"
    THEN [tag |-> "Fed", incomplete |-> c.self, emitted |-> <<>>, substituted |-> 0]
    ELSE feed_decoded(c.self, decode(c.remaining_input),
                      IF c.ok THEN <<c.bytes>> ELSE <<REPLACEMENT_CHARACTER>>,
                      IF c.ok THEN 0 ELSE 1)

\* feed(chunk) on a decoder whose continuation is self
feed(self, chunk) ==
    IF ~is_empty(self)
    THEN feed_completed(try_complete(self, chunk))
    ELSE feed_decoded(self, decode(chunk), <<>>, 0)

\* the concatenation of a sequence of strs
RECURSIVE concat(_)
concat(strs) == IF strs = <<>> THEN <<>> ELSE Head(strs) \o concat(Tail(strs))

\* no source: a BufReader over no data
NoSource == [data |-> <<>>, capacity |-> 1]

\* no strict step was taken
NoStep == [result |-> "none", bytes |-> <<>>]

PushIdle ==
    /\ incomplete = Incomplete_empty
    /\ fed = <<>>
    /\ output = <<>>
    /\ emitted = <<>>
    /\ substituted = 0
    /\ phase = "alive"

\* the decoder after feed(chunk) returned r
Fed(chunk, r) ==
    IF r.tag = "Panic"
    THEN /\ phase' = "panicked"
         /\ UNCHANGED <<incomplete, fed, output, emitted, substituted>>
    ELSE /\ incomplete' = r.incomplete
         /\ fed' = fed \o chunk
         /\ output' = output \o concat(r.emitted)
         /\ emitted' = r.emitted
         /\ substituted' = substituted + r.substituted
         /\ phase' = "alive"

\* decoder.feed(chunk)
Feed ==
    /\ phase = "alive"
    /\ \E chunk \in Chunks[MaxFed - Len(fed)] : Fed(chunk, feed(incomplete, chunk))

\* the decoder goes out of scope: finalize, once
Drop ==
    /\ phase = "alive"
    /\ phase' = "dropped"
    /\ IF ~is_empty(incomplete)
       THEN /\ emitted' = <<REPLACEMENT_CHARACTER>>
            /\ output' = output \o REPLACEMENT_CHARACTER
            /\ substituted' = substituted + 1
            /\ incomplete' = [incomplete EXCEPT !.buffer_len = 0]
       ELSE /\ emitted' = <<>>
            /\ UNCHANGED <<output, substituted, incomplete>>
    /\ UNCHANGED fed

-----------------------------------------------------------------------------------------------------------------------------------------------------
(* BufReadDecoder::read_to_string_lossy: the state machine of LossyDecoder *)
(* over the chunks a BufReader hands out.                                  *)

\* BufReader::fill_buf with consumed bytes of the data consumed.  The buffer
\* is refilled only once all of it is consumed, with the next capacity bytes
\* (fewer at the end of the data, none behind it), so the buffers are cut at
\* the multiples of capacity and fill_buf returns what is left of the current
\* one.
fill_buf(src, consumed) ==
    Slice(src.data, consumed,
          Min(((consumed \div src.capacity) + 1) * src.capacity, Len(src.data)))

\* one round of the loop: the source has a chunk, which is decoded as feed
\* decodes it and consumed
ReadChunk ==
    /\ phase = "alive"
    /\ fill_buf(buf_read, Len(fed)) # <<>>
    /\ Fed(fill_buf(buf_read, Len(fed)), feed(incomplete, fill_buf(buf_read, Len(fed))))

\* end of source: finalize and return Ok(string)
ReadEnd ==
    /\ fill_buf(buf_read, Len(fed)) = <<>>
    /\ Drop

-----------------------------------------------------------------------------
(* BufReadDecoder::next_strict: one strict step.  It pulls chunks until it *)
(* has a str or an error to yield or the source ends; consumed counts the  *)
(* bytes of the source it has consumed.                                    *)

\* the step yields: result is "Text" (bytes: the str), "Invalid" (bytes: the
\* invalid sequence), "Unterminated" (bytes: the sequence the source ended
\* in) or "EndOfStream"
strict_yield(result, bytes, self, consumed) ==
    [tag |-> "Step", result |-> result, bytes |-> bytes,
     self |-> self, consumed |-> consumed]

\* the step has nothing to yield and pulls the next chunk
strict_continue(self, consumed) ==
    [tag |-> "Step", result |-> "Continue", bytes |-> <<>>,
     self |-> self, consumed |-> consumed]

\* the source ended: an Idle decoder reports end-of-stream, a Pending one the
\* sequence it holds, once, and is Idle then
strict_end(self, consumed) ==
    IF is_empty(self)
    THEN strict_yield("EndOfStream", <<>>, self, consumed)
    ELSE strict_yield("Unterminated", take_buffer(self).bytes,
                      take_buffer(self).self, consumed)

\* An Idle decoder pulled a chunk and decode(chunk) returned r.  A valid
\* prefix is yielded first and only it is consumed; an invalid sequence at
\* the start is yielded as the error; an incomplete one is kept in the
\* continuation.
strict_decoded(self, consumed, r) ==
    IF r.tag = "Panic" THEN Panic
    ELSE IF r.tag = "Ok"
    THEN strict_yield("Text", r.valid, self, consumed + Len(r.valid))
    ELSE IF r.valid_prefix # <<>>
    THEN strict_yield("Text", r.valid_prefix, self, consumed + Len(r.valid_prefix))
    ELSE IF r.tag = "Invalid"
    THEN strict_yield("Invalid", r.invalid_sequence, self,
                      consumed + Len(r.invalid_sequence))
    ELSE strict_continue(r.incomplete_suffix,
                         consumed + r.incomplete_suffix.buffer_len)

\* a Pending decoder pulled a chunk of chunk_len bytes and try_complete(chunk)
\* returned c
strict_completed(consumed, chunk_len, c) ==
    IF c.tag = "Panic" THEN Panic
    ELSE IF c.tag = "None" THEN strict_continue(c.self, consumed + chunk_len)
    ELSE strict_yield(IF c.ok THEN "Text" ELSE "Invalid", c.bytes, c.self,
                      consumed + chunk_len - Len(c.remaining_input))

RECURSIVE next_strict(_, _, _)

\* the loop of the step: t is what the last chunk came to
strict_loop(src, t) ==
    IF t.tag = "Panic" THEN Panic
    ELSE IF t.result # "Continue" THEN t
    ELSE next_strict(t.self, src, t.consumed)

\* one round of the loop, chunk being what the source handed out
strict_chunk(self, src, consumed, chunk) ==
    IF chunk = <<>> THEN strict_end(self, consumed)
    ELSE IF is_empty(self)
    THEN strict_loop(src, strict_decoded(self, consumed, decode(chunk)))
    ELSE strict_loop(src, strict_completed(consumed, Len(chunk), try_complete(self, chunk)))

\* next_strict on a decoder whose continuation is self and which has consumed
\* consumed bytes of src
next_strict(self, src, consumed) ==
    strict_chunk(self, src, consumed, fill_buf(src, consumed))

\* the decoder after the step came to t
Stepped(t) ==
    IF t.tag = "Panic"
    THEN /\ phase' = "panicked"
         /\ UNCHANGED <<incomplete, fed, output, step>>
    ELSE /\ incomplete' = t.self
         /\ fed' = Slice(buf_read.data, 0, t.consumed)
         /\ output' = IF t.result = "Text" THEN output \o t.bytes ELSE output
         /\ step' = [result |-> t.result, bytes |-> t.bytes]
         /\ phase' = "alive"

\* decoder.next_strict()
NextStrict ==
    /\ phase = "alive"
    /\ Stepped(next_strict(incomplete, buf_read, Len(fed)))
    /\ UNCHANGED <<emitted, substituted, buf_read>>

-----------------------------------------------------------------------------
(* The specifications.                                                     *)

\* nothing was called yet and the LossyDecoder is new
Init == CoreInit /\ PushIdle /\ buf_read = NoSource /\ step = NoStep

\* a new BufReadDecoder over an in-memory source with a capacity of 1 or more
InitRead ==
    /\ CoreInit
    /\ PushIdle
    /\ buf_read \in [data : SeqsUpTo(Bytes, MaxFed), capacity : 1..MaxCapacity]
    /\ step = NoStep

DecodeNext == CallDecode(DecodeInputs) /\ UNCHANGED <<pushVars, readVars>>

CoreNext ==
    \/ CallDecode(FirstInputs) /\ UNCHANGED <<pushVars, readVars>>
    \/ CallTryComplete /\ UNCHANGED <<pushVars, readVars>>

PushNext ==
    \/ Feed /\ UNCHANGED <<coreVars, readVars>>
    \/ Drop /\ UNCHANGED <<coreVars, readVars>>

ReadNext ==
    \/ ReadChunk /\ UNCHANGED <<coreVars, readVars>>
    \/ ReadEnd /\ UNCHANGED <<coreVars, readVars>>

\* one call of decode()
SpecDecode == Init /\ [][DecodeNext]_vars

\* decode(), then try_complete() for as long as the continuation is not empty
SpecCore == Init /\ [][CoreNext]_vars

\* a LossyDecoder fed chunk after chunk, then dropped
Spec == Init /\ [][PushNext]_vars

\* read_to_string_lossy on a BufReader over in-memory data
SpecRead == InitRead /\ [][ReadNext]_vars

StrictNext == NextStrict /\ UNCHANGED coreVars

\* the LossyDecoder was not fed yet
PushUnused == pushVars = <<Incomplete_empty, <<>>, <<>>, <<>>, 0, "alive">>

\* The continuation in the hands of a caller of decode() and try_complete()
\* or in a LossyDecoder: a run is one or the other.
ContinuationNext ==
    \/ PushUnused /\ CallDecode(FirstInputs) /\ UNCHANGED <<pushVars, readVars>>
    \/ PushUnused /\ CallTryCompleteAgain /\ UNCHANGED <<pushVars, readVars>>
    \/ core_call = NoCall /\ Feed /\ UNCHANGED <<coreVars, readVars>>
    \/ core_call = NoCall /\ Drop /\ UNCHANGED <<coreVars, readVars>>

\* next_strict called again and again on a BufReader over in-memory data
SpecStrict == InitRead /\ [][StrictNext]_vars

\* decode(), then try_complete() again and again whatever it returns; or a
\* LossyDecoder fed chunk after chunk, then dropped
SpecContinuation == Init /\ [][ContinuationNext]_vars

-----
(* Well-formed UTF-8 as the Unicode Standard tabulates it (Table 3-7): the *)
(* ranges of the bytes of one code point, row by row.  The reference the   *)
(* results of decode() are compared with.                                  *)

WellFormedRows ==
    { << <<0, 127>> >>,
      << <<194, 223>>, <<128, 191>> >>,
      << <<224, 224>>, <<160, 191>>, <<128, 191>> >>,
      << <<225, 236>>, <<128, 191>>, <<128, 191>> >>,
      << <<237, 237>>, <<128, 159>>, <<128, 191>> >>,
      << <<238, 239>>, <<128, 191>>, <<128, 191>> >>,
      << <<240, 240>>, <<144, 191>>, <<128, 191>>, <<128, 191>> >>,
      << <<241, 243>>, <<128, 191>>, <<128, 191>>, <<128, 191>> >>,
      << <<244, 244>>, <<128, 143>>, <<128, 191>>, <<128, 191>> >> }

\* the bytes of s lie in the first ranges of row
Within(s, row) ==
    /\ Len(s) <= Len(row)
    /\ \A i \in 1..Len(s) : s[i] >= row[i][1] /\ s[i] <= row[i][2]

\* s is the encoding of one code point
IsCodePoint(s) == \E row \in WellFormedRows : Len(s) = Len(row) /\ Within(s, row)

\* s is the start of the encoding of a code point, and not all of it
StartsCodePoint(s) ==
    /\ s # <<>>
    /\ \E row \in WellFormedRows : Len(s) < Len(row) /\ Within(s, row)

\* v is a sequence of encoded code points
RECURSIVE WellFormed(_)
WellFormed(v) ==
    \/ v = <<>>
    \/ \E k \in 1..Min(4, Len(v)) :
          /\ IsCodePoint(SubSeq(v, 1, k))
          /\ WellFormed(SubSeq(v, k + 1, Len(v)))

\* the length of the longest well-formed prefix of v
ReferenceValidUpTo(v) ==
    CHOOSE k \in 0..Len(v) :
        /\ WellFormed(SubSeq(v, 1, k))
        /\ \A j \in (k + 1)..Len(v) : ~WellFormed(SubSeq(v, 1, j))

\* The erroring span at the head of rest, which starts no well-formed code
\* point: the bytes that still start a code point, one byte at least.
ReferenceErrorLen(rest) ==
    LET starts == {j \in 1..Min(3, Len(rest)) : StartsCodePoint(SubSeq(rest, 1, j))}
    IN  IF starts = {} THEN 1 ELSE CHOOSE j \in starts : \A i \in starts : i <= j

\* tail is what is left of v behind some prefix
IsSuffix(tail, v) ==
    /\ Len(tail) <= Len(v)
    /\ tail = SubSeq(v, Len(v) - Len(tail) + 1, Len(v))

-----------------------------------------------------------------------------
(* decode(): claims C2, C3 and C4, checked under SpecDecode.               *)

\* C2 (coverage invariant of decode): the parts of every result of decode,
\* concatenated in order, are the input byte for byte: valid_prefix,
\* invalid_sequence and remaining_input of Invalid, valid_prefix and the
\* buffer_len buffered bytes of Incomplete, the text of Ok; so the lengths of
\* the parts sum to the input's.
DecodeCoversInput ==
    core_call.op = "decode" =>
        LET input == core_call.input
            r == core_call.result
        IN  /\ r.tag \in {"Ok", "Invalid", "Incomplete"}
            /\ r.tag = "Ok" => r.valid = input
            /\ r.tag = "Invalid" =>
                  /\ r.valid_prefix \o r.invalid_sequence \o r.remaining_input = input
                  /\ Len(r.valid_prefix) + Len(r.invalid_sequence) + Len(r.remaining_input)
                        = Len(input)
            /\ r.tag = "Incomplete" =>
                  /\ r.valid_prefix \o buffered(r.incomplete_suffix) = input
                  /\ Len(r.valid_prefix) + r.incomplete_suffix.buffer_len = Len(input)

\* decode returned Invalid with none of the three parts empty
DecodeCoversInputWitness ==
    /\ core_call.op = "decode"
    /\ core_call.result.tag = "Invalid"
    /\ core_call.result.valid_prefix # <<>>
    /\ Len(core_call.result.invalid_sequence) >= 2
    /\ core_call.result.remaining_input # <<>>

\* C3 (agreement with reference strict validation): decode returns Ok exactly
\* when the input is well-formed; otherwise valid_prefix is the longest
\* well-formed prefix, whose length is also the valid_up_to of from_utf8, the
\* result is Incomplete exactly when the bytes behind the prefix start a code
\* point the input ends in (from_utf8 reports no error_len) and Invalid
\* exactly when they do not (from_utf8 reports one), and invalid_sequence is
\* then not empty and as long as the erroring span.
DecodeAgreesWithReference ==
    core_call.op = "decode" =>
        LET input == core_call.input
            r == core_call.result
            std == from_utf8(input)
            k == ReferenceValidUpTo(input)
            rest == SliceFrom(input, k)
        IN  /\ (r.tag = "Ok") <=> WellFormed(input)
            /\ (r.tag = "Ok") <=> std.ok
            /\ r.tag # "Ok" =>
                  /\ r.tag \in {"Invalid", "Incomplete"}
                  /\ r.valid_prefix = Slice(input, 0, k)
                  /\ Len(r.valid_prefix) = std.valid_up_to
                  /\ (r.tag = "Incomplete") <=> StartsCodePoint(rest)
                  /\ (r.tag = "Invalid") <=> ~StartsCodePoint(rest)
                  /\ (r.tag = "Invalid") <=> std.error_len.some
                  /\ r.tag = "Invalid" =>
                        /\ r.invalid_sequence # <<>>
                        /\ Len(r.invalid_sequence) = ReferenceErrorLen(rest)
                        /\ Len(r.invalid_sequence) = std.error_len.len

\* decode returned Invalid for an input that ends in the invalid sequence,
\* behind a valid prefix
DecodeAgreesWithReferenceWitness ==
    /\ core_call.op = "decode"
    /\ core_call.result.tag = "Invalid"
    /\ core_call.result.valid_prefix # <<>>
    /\ Len(core_call.result.invalid_sequence) = 1
    /\ core_call.result.remaining_input = <<>>

\* C4 (incomplete-suffix bound): whenever decode returns Incomplete,
\* buffer_len is 1, 2 or 3, and the buffered bytes are the last bytes of the
\* input, which start a multi-byte code point.
IncompleteSuffixBound ==
    (core_call.op = "decode" /\ core_call.result.tag = "Incomplete") =>
        LET input == core_call.input
            suffix == core_call.result.incomplete_suffix
        IN  /\ suffix.buffer_len \in 1..3
            /\ IsSuffix(buffered(suffix), input)
            /\ StartsCodePoint(buffered(suffix))
            /\ utf8_char_width(suffix.buffer[1]) >= 2

\* decode returned Incomplete with three bytes buffered behind a valid prefix
IncompleteSuffixBoundWitness ==
    /\ core_call.op = "decode"
    /\ core_call.result.tag = "Incomplete"
    /\ core_call.result.incomplete_suffix.buffer_len = 3
    /\ core_call.result.valid_prefix # <<>>

-----------------------------------------------------------------------------
(* try_complete(): claims C6 and C8, checked under SpecCore.               *)

\* C6 (consumption accounting of try_complete): whenever try_complete, on a
\* continuation decode returned or an earlier try_complete left by returning
\* None, returns Some((result, remaining_input)), remaining_input is a suffix
\* of the input, and the bytes of result (the text of Ok, the invalid bytes of
\* Err) followed by remaining_input are the bytes buffered before the call
\* followed by the input.
TryCompleteAccountsForInput ==
    (core_call.op = "try_complete" /\ core_call.result.tag = "Some") =>
        LET input == core_call.input
            r == core_call.result
        IN  /\ IsSuffix(r.remaining_input, input)
            /\ r.bytes \o r.remaining_input = buffered(core_call.before) \o input

\* on a continuation an earlier try_complete left, try_complete consumed some
\* of the input and returned Ok with the rest as remaining_input, less than
\* it had copied
TryCompleteAccountsForInputWitness ==
    /\ core_call.op = "try_complete"
    /\ core_call.after_none
    /\ core_call.result.tag = "Some"
    /\ core_call.result.ok
    /\ core_call.result.remaining_input # <<>>
    /\ Len(core_call.result.remaining_input) < Len(core_call.input)
    /\ Len(core_call.input) - Len(core_call.result.remaining_input)
          < Min(4 - core_call.before.buffer_len, Len(core_call.input))

\* C8 (no panic on malformed input): decode returns Ok, Invalid or Incomplete
\* for every input, and try_complete returns None or Some for every input and
\* every continuation decode returned or an earlier try_complete left: no
\* checked_sub(initial_buffer_len) fails, no slice is out of range.
NoPanic ==
    /\ core_call.op = "decode" =>
          core_call.result.tag \in {"Ok", "Invalid", "Incomplete"}
    /\ core_call.op = "try_complete" =>
          core_call.result.tag \in {"None", "Some"}

\* try_complete on three buffered bytes returned Err and consumed nothing: the
\* checked_sub came to 0
NoPanicWitness ==
    /\ core_call.op = "try_complete"
    /\ core_call.before.buffer_len = 3
    /\ core_call.result.tag = "Some"
    /\ ~core_call.result.ok
    /\ core_call.input # <<>>
    /\ core_call.result.remaining_input = core_call.input

-----------------------------------------------------------------------------
(* LossyDecoder: claims C1, C7, C9 and C10, checked under Spec.            *)

\* v ends inside a code point: its last 1, 2 or 3 bytes start one
EndsMidCodePoint(v) ==
    \E k \in 1..Min(3, Len(v)) : StartsCodePoint(SubSeq(v, Len(v) - k + 1, Len(v)))

\* C1 (fragmentation independence of the push decoder): for every byte
\* sequence and every way to cut it into chunks, empty ones too, once the
\* chunks were fed in order to a new LossyDecoder and the decoder was dropped,
\* the strs the callback received, concatenated in order, are
\* String::from_utf8_lossy of the whole sequence.
FragmentationIndependence ==
    phase = "dropped" => output = from_utf8_lossy(fed)

\* a decoder was dropped after as many bytes as the bound allows, one invalid
\* sequence replaced among them; its buffer still holds a whole 2-byte code
\* point, which only try_complete puts there: a chunk ended inside that code
\* point and a later chunk completed it
FragmentationIndependenceWitness ==
    /\ phase = "dropped"
    /\ Len(fed) = MaxFed
    /\ substituted >= 1
    /\ incomplete.buffer[1] = 195
    /\ incomplete.buffer[2] = 160
    /\ output # fed

\* C7 (finalize of the push decoder): when the decoder is dropped after any
\* feed calls, a Pending decoder passes exactly one U+FFFD to the callback
\* and becomes Idle, and an Idle one does not invoke the callback; nothing
\* happens after the drop; so the drop adds one replacement character exactly
\* when the bytes fed end inside a code point.
FinalizeOnce ==
    /\ [][(phase = "alive" /\ phase' = "dropped") =>
            IF incomplete.buffer_len > 0
            THEN /\ emitted' = <<REPLACEMENT_CHARACTER>>
                 /\ output' = output \o REPLACEMENT_CHARACTER
                 /\ substituted' = substituted + 1
                 /\ incomplete'.buffer_len = 0
            ELSE /\ emitted' = <<>>
                 /\ output' = output
                 /\ substituted' = substituted
                 /\ incomplete'.buffer_len = 0]_vars
    /\ [][phase # "dropped"]_vars
    /\ [](phase = "dropped" =>
            /\ EndsMidCodePoint(fed) => emitted = <<REPLACEMENT_CHARACTER>>
            /\ ~EndsMidCodePoint(fed) => emitted = <<>>)

\* a decoder was dropped whose input ended inside a code point, behind valid
\* text: the one replacement character is the finalize's
FinalizeOnceWitness ==
    /\ phase = "dropped"
    /\ emitted = <<REPLACEMENT_CHARACTER>>
    /\ substituted = 1
    /\ Len(output) > 3
    /\ Len(fed) - from_utf8(fed).valid_up_to = 3

\* C9 (round trip on valid input under streaming): while the bytes fed are
\* well-formed UTF-8, however they were cut into chunks, the decoder has
\* substituted no replacement character (it took no Invalid or Rejected
\* branch) and the callback output is the bytes fed; dropped then, the
\* finalize emits nothing.
RoundTripOnValidInput ==
    from_utf8(fed).ok =>
        /\ phase \in {"alive", "dropped"}
        /\ substituted = 0
        /\ output = fed
        /\ is_empty(incomplete)
        /\ phase = "dropped" => emitted = <<>>

\* a Pending decoder was fed a chunk that completes its code point and goes
\* on with a character and another whole code point: try_complete took the
\* first two bytes of the chunk, decode the rest, and all fed is well-formed
RoundTripOnValidInputWitness ==
    /\ phase = "alive"
    /\ from_utf8(fed).ok
    /\ fed = <<195, 160, 65, 195, 160>>
    /\ emitted = << <<195, 160, 65>>, <<195, 160>> >>

\* C10 (the callback never receives an empty string): every str passed to the
\* callback during feed or at the drop has length 1 or more.
NeverEmitsEmpty ==
    \A i \in 1..Len(emitted) : Len(emitted[i]) >= 1

-----------------------------------------------------------------------------
(* BufReadDecoder::read_to_string_lossy: claim C5, checked under SpecRead. *)

\* C5 (pull decoder, lossy mode): for every byte sequence of an in-memory
\* source and every capacity of 1 or more of its BufReader,
\* read_to_string_lossy returns Ok with String::from_utf8_lossy of the whole
\* sequence; malformed bytes never make it fail.
ReadToStringLossy ==
    /\ phase \in {"alive", "dropped"}
    /\ phase = "dropped" =>
          /\ fed = buf_read.data
          /\ output = from_utf8_lossy(buf_read.data)

\* read_to_string_lossy returned for a source whose chunks of 2 bytes cut a
\* 2-byte code point in two, behind an invalid byte
ReadToStringLossyWitness ==
    /\ phase = "dropped"
    /\ buf_read.capacity = 2
    /\ Len(buf_read.data) = MaxFed
    /\ buf_read.data[1] = 128
    /\ buf_read.data[2] = 195
    /\ buf_read.data[3] = 160
    /\ substituted = 1

-----------------------------------------------------------------------------
(* BufReadDecoder::next_strict: claim C11, checked under SpecStrict.       *)

\* C11 (strict pull mode at end-of-source): in every sequence of strict
\* steps, a step that finds the source at its end and the decoder Idle
\* reports end-of-stream and changes nothing else; a step that finds the
\* source ending inside a code point (the decoder is Pending when the source
\* reports its end) fails with the unterminated-sequence error, which holds
\* the bytes of that sequence, and leaves the continuation empty and the
\* source consumed; the step after that error reports end-of-stream, and
\* nothing is reported after end-of-stream but end-of-stream, so the error
\* is reported exactly once.
StrictEndOfSource ==
    /\ [][LET rest == SliceFrom(buf_read.data, Len(fed))
          IN  /\ (rest = <<>> /\ is_empty(incomplete)) =>
                    /\ step'.result = "EndOfStream"
                    /\ is_empty(incomplete')
                    /\ fed' = fed
                    /\ output' = output
              /\ step'.result = "EndOfStream" => rest = <<>>
              /\ StartsCodePoint(rest) <=> step'.result = "Unterminated"
              /\ step'.result = "Unterminated" =>
                    /\ step'.bytes = rest
                    /\ is_empty(incomplete')
                    /\ fed' = buf_read.data
                    /\ output' = output
              /\ step.result = "Unterminated" => step'.result = "EndOfStream"]_vars
    /\ [][step.result # "EndOfStream"]_vars
    /\ [](step.result \in {"Unterminated", "EndOfStream"} =>
            /\ is_empty(incomplete)
            /\ fed = buf_read.data)

\* a step failed with the unterminated-sequence error for a 3-byte sequence
\* the source handed out byte by byte, behind text the steps before yielded:
\* the continuation grew over two calls of try_complete before the source
\* ended
StrictEndOfSourceWitness ==
    /\ step.result = "Unterminated"
    /\ Len(step.bytes) = 3
    /\ buf_read.capacity = 1
    /\ Len(buf_read.data) = MaxFed
    /\ output # <<>>
    /\ is_empty(incomplete)

-----------------------------------------------------------------------------
(* try_complete(): claims C12, C13 and C14, checked under SpecCore.        *)

\* C12 (StillIncomplete drops no bytes): on a continuation decode returned or
\* an earlier try_complete left by returning None, try_complete returns None
\* only when the buffered bytes and the input are 3 bytes or fewer together,
\* and the continuation then holds the bytes buffered before followed by all
\* of the input, in order; so whenever the buffered bytes and the input are 4
\* bytes or more together, try_complete returns Some.
StillIncompleteDropsNoBytes ==
    core_call.op = "try_complete" =>
        LET before == core_call.before
            input == core_call.input
            r == core_call.result
        IN  /\ r.tag = "None" =>
                  /\ before.buffer_len + Len(input) <= 3
                  /\ r.self.buffer_len = before.buffer_len + Len(input)
                  /\ buffered(r.self) = buffered(before) \o input
                  /\ core_inc = r.self
            /\ before.buffer_len + Len(input) >= 4 => r.tag = "Some"

\* try_complete returned None twice in a row, each time for one more byte of
\* a 4-byte code point: three bytes are buffered
StillIncompleteDropsNoBytesWitness ==
    /\ core_call.op = "try_complete"
    /\ core_call.after_none
    /\ core_call.result.tag = "None"
    /\ core_call.before.buffer_len = 2
    /\ Len(core_call.input) = 1
    /\ core_inc.buffer_len = 3

\* C13 (try_complete agrees with decode on the concatenation): for every
\* continuation decode returned or an earlier try_complete left and every
\* input, with r = decode(the buffered bytes followed by the input),
\* try_complete returns None exactly when r is Incomplete with an empty
\* valid_prefix; it returns Some((Err(bytes), remaining_input)) exactly when r
\* is Invalid with an empty valid_prefix, bytes being r's invalid_sequence
\* and remaining_input r's; in every other case it returns Some((Ok(text), _))
\* with text a non-empty prefix of r's valid text.
TryCompleteAgreesWithDecode ==
    core_call.op = "try_complete" =>
        LET c == core_call.result
            r == decode(buffered(core_call.before) \o core_call.input)
            none == r.tag = "Incomplete" /\ r.valid_prefix = <<>>
            err == r.tag = "Invalid" /\ r.valid_prefix = <<>>
        IN  /\ c.tag \in {"None", "Some"}
            /\ (c.tag = "None") <=> none
            /\ (c.tag = "Some" /\ ~c.ok) <=> err
            /\ err => /\ c.bytes = r.invalid_sequence
                      /\ c.remaining_input = r.remaining_input
            /\ (~none /\ ~err) =>
                  LET text == IF r.tag = "Ok" THEN r.valid ELSE r.valid_prefix
                  IN  /\ c.tag = "Some"
                      /\ c.ok
                      /\ c.bytes # <<>>
                      /\ Len(c.bytes) <= Len(text)
                      /\ c.bytes = SubSeq(text, 1, Len(c.bytes))

\* on a continuation of two bytes that decode returned, try_complete returned
\* Err with those two bytes and all of a longer input as remaining_input
TryCompleteAgreesWithDecodeWitness ==
    /\ core_call.op = "try_complete"
    /\ ~core_call.after_none
    /\ core_call.result.tag = "Some"
    /\ ~core_call.result.ok
    /\ Len(core_call.result.bytes) = 2
    /\ Len(core_call.result.remaining_input) >= 2
    /\ core_call.result.remaining_input = core_call.input

\* C14 (what Completed yields), as claimed: whenever try_complete returns
\* Some((Ok(text), remaining_input)), text is exactly one code point, the one
\* whose first bytes were buffered, and remaining_input is every byte of the
\* input behind that code point.
CompletedIsOneCodePoint ==
    (core_call.op = "try_complete" /\ core_call.result.tag = "Some"
        /\ core_call.result.ok) =>
        /\ IsCodePoint(core_call.result.bytes)
        /\ core_call.result.bytes \o core_call.result.remaining_input
              = buffered(core_call.before) \o core_call.input

\* C14 as the code has it: whenever try_complete returns
\* Some((Ok(text), remaining_input)), text is the longest well-formed prefix
\* of the first 4 bytes of the buffered bytes followed by the input: it
\* starts with the code point whose first bytes were buffered, now whole, and
\* goes on with the whole code points behind it that fit into the 4 bytes of
\* the buffer; remaining_input is every byte of the input behind text.
CompletedIsValidPrefixOfBuffer ==
    (core_call.op = "try_complete" /\ core_call.result.tag = "Some"
        /\ core_call.result.ok) =>
        LET before == core_call.before
            input == core_call.input
            text == core_call.result.bytes
            all == buffered(before) \o input
            head == SubSeq(all, 1, Min(4, Len(all)))
        IN  /\ text = SubSeq(head, 1, ReferenceValidUpTo(head))
            /\ \E k \in (before.buffer_len + 1)..Len(text) :
                  /\ IsCodePoint(SubSeq(text, 1, k))
                  /\ WellFormed(SubSeq(text, k + 1, Len(text)))
            /\ Len(text) - before.buffer_len <= Len(input)
            /\ core_call.result.remaining_input
                  = SliceFrom(input, Len(text) - before.buffer_len)

\* try_complete returned Ok with a text of two code points, the completed one
\* and the character behind it, and a remaining_input that is not empty
CompletedIsValidPrefixOfBufferWitness ==
    /\ core_call.op = "try_complete"
    /\ core_call.result.tag = "Some"
    /\ core_call.result.ok
    /\ core_call.before.buffer_len = 1
    /\ Len(core_call.result.bytes) = 3
    /\ IsCodePoint(SubSeq(core_call.result.bytes, 1, 2))
    /\ core_call.result.remaining_input # <<>>

-----------------------------------------------------------------------------
(* The continuation over sequences of calls: claims C15 and C17, checked   *)
(* under SpecContinuation.                                                 *)

\* C15 (continuation state invariant): over every sequence of try_complete
\* calls that starts from a continuation decode returned, buffer_len never
\* exceeds 4 (nor does the length of the bytes a call takes from the buffer);
\* it is 0 right after every call that returns Some and 1, 2 or 3 right after
\* every call that returns None; and after every feed (and the drop) the
\* LossyDecoder is Idle, with 0 bytes buffered, or Pending, with 1 to 3
\* buffered bytes that start one multi-byte code point.
ContinuationStateInvariant ==
    /\ core_inc.buffer_len <= 4
    /\ core_call.op = "try_complete" =>
          /\ core_call.result.tag \in {"None", "Some"}
          /\ core_call.result.self = core_inc
          /\ core_call.result.tag = "Some" =>
                /\ core_inc.buffer_len = 0
                /\ Len(core_call.result.bytes) <= 4
          /\ core_call.result.tag = "None" => core_inc.buffer_len \in 1..3
    /\ phase \in {"alive", "dropped"}
    /\ \/ incomplete.buffer_len = 0
       \/ /\ incomplete.buffer_len \in 1..3
          /\ StartsCodePoint(buffered(incomplete))
          /\ utf8_char_width(incomplete.buffer[1]) >= 2
    /\ phase = "dropped" => incomplete.buffer_len = 0

\* a continuation that a Some had reset was handed two bytes of a 4-byte code
\* point and try_complete returned None: it holds 2 bytes again
ContinuationStateInvariantWitness ==
    /\ core_call.op = "try_complete"
    /\ core_call.before.buffer_len = 0
    /\ core_call.before.buffer[1] # 0
    /\ core_call.result.tag = "None"
    /\ core_inc.buffer_len = 2

\* C17 (empty input is a no-op on a pending continuation): for every
\* continuation that is not empty, try_complete with an empty input returns
\* None and leaves buffer_len and the buffered bytes (all of the buffer, in
\* fact) as they were; and feed of an empty chunk to a Pending LossyDecoder
\* does not invoke the callback and leaves the decoder Pending with the same
\* buffered bytes.
EmptyInputIsNoOp ==
    /\ [](( /\ core_call.op = "try_complete"
            /\ core_call.input = <<>>
            /\ core_call.before.buffer_len > 0) =>
              /\ core_call.result.tag = "None"
              /\ core_inc.buffer_len = core_call.before.buffer_len
              /\ buffered(core_inc) = buffered(core_call.before)
              /\ core_inc = core_call.before)
    /\ [][( /\ phase = "alive"
            /\ phase' = "alive"
            /\ incomplete.buffer_len > 0
            /\ fed' = fed) =>
              /\ emitted' = <<>>
              /\ output' = output
              /\ substituted' = substituted
              /\ incomplete'.buffer_len = incomplete.buffer_len
              /\ buffered(incomplete') = buffered(incomplete)]_vars

\* try_complete was called with an empty input on a continuation of 3 bytes
\* that an earlier call had left, and returned None
EmptyInputIsNoOpWitness ==
    /\ core_call.op = "try_complete"
    /\ core_call.input = <<>>
    /\ core_call.before.buffer_len = 3
    /\ core_call.after_none
    /\ core_call.result.tag = "None"
    /\ core_inc.buffer_len = 3

-----------------------------------------------------------------------------
(* LossyDecoder: claim C16, checked under Spec.                            *)

\* C16 (prompt emission, bounded retained state): after every feed call of
\* every sequence of feeds, the decoder holds 0 to 3 pending bytes, which are
\* the last buffer_len bytes fed, and the strs the callback has received so
\* far, concatenated, are String::from_utf8_lossy of the bytes fed so far
\* without those pending bytes: no more than 3 bytes of the input are ever
\* withheld from the output.
PromptEmission ==
    phase = "alive" =>
        LET pending == incomplete.buffer_len
        IN  /\ pending \in 0..3
            /\ pending <= Len(fed)
            /\ buffered(incomplete) = SubSeq(fed, Len(fed) - pending + 1, Len(fed))
            /\ output = from_utf8_lossy(SubSeq(fed, 1, Len(fed) - pending))

\* after a feed that emitted nothing the decoder holds 3 pending bytes,
\* behind an invalid byte it replaced and a character
PromptEmissionWitness ==
    /\ phase = "alive"
    /\ Len(fed) = MaxFed
    /\ incomplete.buffer_len = 3
    /\ emitted = <<>>
    /\ substituted = 1
    /\ output = REPLACEMENT_CHARACTER \o <<65>>

====
